---- MODULE Spec2Model ----
(***************************************************************************)
(* A model of src/find_bottleneck.rs (asmap-rs): the batched pass of       *)
(* FindBottleneck::locate over sorted and unsorted RIB dump files, the     *)
(* record loop of parse_mrt, match_rib_entry, format_ip, and the resolver  *)
(* find_common_suffix / find_as_bottleneck.                                *)
(*                                                                         *)
(* Three specifications share the module:                                  *)
(*   Spec         the run of locate, one step per reader.read() of         *)
(*                parse_mrt and one step per bin tail / final flush;       *)
(*   SpecResolve  find_as_bottleneck applied to bounded batch maps;        *)
(*   SpecFmt      format_ip applied to bounded prefix byte slices.         *)
(***************************************************************************)
EXTENDS Integers, Sequences, FiniteSets, TLC

VARIABLES
    \* ---- locate ----
    files_sorted,      \* file_decoders_sorted: the record stream of each sorted file
    files_unsorted,    \* file_decoders_unsorted: the record stream of each unsorted file
    pos_sorted,        \* read position of each sorted decoder (records consumed)
    pos_unsorted,      \* read position of each unsorted decoder
    mrt_hm_unsorted,   \* the unsorted cache
    next_mrt_hm,       \* the carry-over map
    mrt_hm,            \* the current bin's batch map
    current_start_high_octet,
    file_i,            \* the index i of the file loop that is running
    pc,                \* "load_unsorted", "parse_sorted", "bin_tail", "flush", "done", "panic"
    last_read,         \* what the last reader.read() returned ("none" before the first)
    out,               \* what write_bottleneck has written: Address -> ASNs, in order
    handed,            \* history: the maps handed to find_as_bottleneck, in order
    batch_recs,        \* history: the sorted records merged into mrt_hm
    carry_recs,        \* history: the sorted records merged into next_mrt_hm
    cache0,            \* history: the unsorted cache when loading finished
    \* ---- find_as_bottleneck alone ----
    rs_mrt_hm,         \* the batch map given to the resolver
    rs_suffix,         \* prefix_to_common_suffix after find_common_suffix
    rs_hist,           \* history: per address, the comparisons of find_common_suffix
    rs_result,         \* outcome of find_as_bottleneck: status and prefix_asn
    rs_pc,             \* "start", "suffixed", "resolved"
    \* ---- format_ip alone ----
    fmt_ip,            \* the prefix byte slice
    fmt_is_ipv4,
    fmt_out,           \* the octets of the IpAddr returned
    fmt_pc             \* "start", "formatted"

lvars == <<files_sorted, files_unsorted, pos_sorted, pos_unsorted, mrt_hm_unsorted,
           next_mrt_hm, mrt_hm, current_start_high_octet, file_i, pc, last_read,
           out, handed, batch_recs, carry_recs, cache0>>
rvars == <<rs_mrt_hm, rs_suffix, rs_hist, rs_result, rs_pc>>
fvars == <<fmt_ip, fmt_is_ipv4, fmt_out, fmt_pc>>
vars == <<lvars, rvars, fvars>>

(***************************************************************************)
(* Sequence and map helpers (Vec, HashMap, HashSet of the standard library) *)
(***************************************************************************)
Range(s) == {s[k] : k \in 1..Len(s)}

Reverse(s) == [k \in 1..Len(s) |-> s[Len(s) + 1 - k]]

Min(a, b) == IF a < b THEN a ELSE b

EmptyMap == <<>>

\* HashMap::entry(addr).or_insert_with(HashSet::new).insert(path)
MapInsert(m, addr, path) ==
    [a \in DOMAIN m \cup {addr} |->
        IF a = addr
        THEN (IF addr \in DOMAIN m THEN m[addr] ELSE {}) \cup {path}
        ELSE m[a]]

MapRemove(m, keys) == [a \in DOMAIN m \ keys |-> m[a]]

\* Vec::dedup: consecutive equal elements collapse to one
RECURSIVE Dedup(_)
Dedup(s) ==
    IF Len(s) <= 1 THEN s
    ELSE IF s[1] = s[2] THEN Dedup(Tail(s))
    ELSE <<s[1]>> \o Dedup(Tail(s))

(***************************************************************************)
(* format_ip                                                               *)
(***************************************************************************)
PadLen == 17

Pad == [k \in 1..PadLen |-> 0]

U16FromBeBytes(hi, lo) == hi * 256 + lo

\* Ipv6Addr::octets(): each 16-bit segment as two bytes, high byte first
SegmentOctets(segs) ==
    [k \in 1..(2 * Len(segs)) |->
        IF k % 2 = 1 THEN segs[(k + 1) \div 2] \div 256 ELSE segs[k \div 2] % 256]

\* ip[k] below is the 0-based index of the source
FormatIp(ip, is_ipv4) ==
    LET c == ip \o Pad
        B(k) == c[k + 1]
    IN  IF is_ipv4
        THEN <<B(0), B(1), B(2), B(3)>>
        ELSE SegmentOctets(<<U16FromBeBytes(B(0), B(1)),
                             U16FromBeBytes(B(2), B(3)),
                             U16FromBeBytes(B(4), B(5)),
                             U16FromBeBytes(B(7), B(8)),
                             U16FromBeBytes(B(9), B(10)),
                             U16FromBeBytes(B(11), B(12)),
                             U16FromBeBytes(B(13), B(14)),
                             U16FromBeBytes(B(15), B(16))>>)

\* Address { ip, mask }: ip is the octets of an IpAddr (4 for V4, 16 for V6)
Address(ip, mask) == [ip |-> ip, mask |-> mask]

(***************************************************************************)
(* find_common_suffix and find_as_bottleneck                               *)
(***************************************************************************)
\* Vec::first(): an Option, here <<>> for None and <<x>> for Some(x)
First(s) == IF Len(s) = 0 THEN <<>> ELSE <<s[1]>>

\* SortedOrders with the comparison turned round: non-increasing length
RECURSIVE SortedOrdersMutDescending(_)
SortedOrdersMutDescending(as_paths) ==
    IF as_paths = {} THEN {<<>>}
    ELSE LET longest == {p \in as_paths : \A q \in as_paths : Len(p) >= Len(q)}
         IN  UNION {{<<p>> \o rest : rest \in SortedOrdersMutDescending(as_paths \ {p})} :
                        p \in longest}

\* SortedOrders without the sort: the HashSet's iteration order as it comes
RECURSIVE SortedOrdersMutUnsorted(_)
SortedOrdersMutUnsorted(as_paths) ==
    IF as_paths = {} THEN {<<>>}
    ELSE UNION {{<<p>> \o rest : rest \in SortedOrdersMutUnsorted(as_paths \ {p})} :
                    p \in as_paths}

\* as_paths.iter().collect() followed by the stable sort_by on len(): the
\* HashSet's iteration order is arbitrary, so every arrangement of the set in
\* non-decreasing length can be the sorted vector.
RECURSIVE SortedOrders(_)
SortedOrders(as_paths) ==
    IF as_paths = {} THEN {<<>>}
    ELSE LET shortest == {p \in as_paths : \A q \in as_paths : Len(p) <= Len(q)}
         IN  UNION {{<<p>> \o rest : rest \in SortedOrders(as_paths \ {p})} :
                        p \in shortest}

\* One sorted vector for every address of the map
RECURSIVE OrderingsOver(_, _)
OrderingsOver(m, addrs) ==
    IF addrs = {} THEN {EmptyMap}
    ELSE LET a == CHOOSE x \in addrs : TRUE
         IN  {[x \in addrs |-> IF x = a THEN s ELSE ord[x]] :
                 ord \in OrderingsOver(m, addrs \ {a}), s \in SortedOrders(m[a])}

Orderings(m) == OrderingsOver(m, DOMAIN m)

\* CompareFrom with the truncation one position late: truncate(i + 1)
RECURSIVE CompareFromMutTruncate(_, _, _)
CompareFromMutTruncate(rev_common_suffix, rev_as_path, i) ==
    IF i >= Len(rev_common_suffix) THEN [st |-> "ok", v |-> rev_common_suffix]
    ELSE IF i + 1 > Len(rev_as_path) THEN [st |-> "panic", v |-> <<>>]
    ELSE IF rev_as_path[i + 1] # rev_common_suffix[i + 1]
         THEN [st |-> "ok", v |-> SubSeq(rev_common_suffix, 1, i + 1)]
    ELSE CompareFromMutTruncate(rev_common_suffix, rev_as_path, i + 1)

\* The inner loop `for i in 1..rev_common_suffix.len()` from index i on
\* (0-based as in the source). An index past the end of rev_as_path is the
\* slice-index panic of the language.
RECURSIVE CompareFrom(_, _, _)
CompareFrom(rev_common_suffix, rev_as_path, i) ==
    IF i >= Len(rev_common_suffix) THEN [st |-> "ok", v |-> rev_common_suffix]
    ELSE IF i + 1 > Len(rev_as_path) THEN [st |-> "panic", v |-> <<>>]
    ELSE IF rev_as_path[i + 1] # rev_common_suffix[i + 1]
         THEN [st |-> "ok", v |-> SubSeq(rev_common_suffix, 1, i)]
    ELSE CompareFrom(rev_common_suffix, rev_as_path, i + 1)

\* OriginDiffers without the check
OriginDiffersMutNever(rev_common_suffix, rev_as_path) == FALSE

\* The origin check of one path against the baseline (line 159)
OriginDiffers(rev_common_suffix, rev_as_path) ==
    First(rev_common_suffix) # First(rev_as_path)

\* The loop over as_paths_sorted.iter().skip(1), from the k-th path on.
\* "skip" is `continue 'outer`: the address gets no entry. hist records, for
\* each path the loop takes, the length of rev_common_suffix when the path is
\* taken, the length of the path, and how its comparison ended.
RECURSIVE ComparePaths(_, _, _, _)
ComparePaths(rev_common_suffix, as_paths_sorted, k, hist) ==
    IF k > Len(as_paths_sorted)
    THEN [st |-> "ok", v |-> rev_common_suffix, hist |-> hist]
    ELSE LET rev_as_path == Reverse(as_paths_sorted[k])
             taken(st) == Append(hist, [base |-> Len(rev_common_suffix),
                                        path |-> Len(rev_as_path), st |-> st])
         IN  IF OriginDiffers(rev_common_suffix, rev_as_path)
             THEN [st |-> "skip", v |-> <<>>, hist |-> taken("skip")]
             ELSE LET r == CompareFrom(rev_common_suffix, rev_as_path, 1)
                  IN  IF r.st = "panic"
                      THEN [st |-> "panic", v |-> <<>>, hist |-> taken("panic")]
                      ELSE ComparePaths(r.v, as_paths_sorted, k + 1, taken("ok"))

\* CommonSuffixOf with the baseline left in wire order (no reverse)
CommonSuffixOfMutNoReverse(as_paths_sorted) ==
    IF Len(as_paths_sorted) = 0 THEN [st |-> "panic", v |-> <<>>, hist |-> <<>>]
    ELSE ComparePaths(as_paths_sorted[1], as_paths_sorted, 2, <<>>)

\* The body of the 'outer loop for one address
CommonSuffixOf(as_paths_sorted) ==
    IF Len(as_paths_sorted) = 0                                   \* as_paths_sorted[0]
    THEN [st |-> "panic", v |-> <<>>, hist |-> <<>>]
    ELSE ComparePaths(Reverse(as_paths_sorted[1]), as_paths_sorted, 2, <<>>)

\* find_common_suffix: the entries inserted into prefix_to_common_suffix
FindCommonSuffix(m, ord) ==
    LET r == [a \in DOMAIN m |-> CommonSuffixOf(ord[a])]
        kept == {a \in DOMAIN m : r[a].st = "ok"}
    IN  [st |-> IF \E a \in DOMAIN m : r[a].st = "panic" THEN "panic" ELSE "ok",
         map |-> [a \in kept |-> r[a].v],
         hist |-> [a \in DOMAIN m |-> r[a].hist]]

\* PopAll taking the first element instead of the last
PopAllMutFirst(suffixes) ==
    IF \E a \in DOMAIN suffixes : suffixes[a] = <<>>
    THEN [st |-> "panic", prefix_asn |-> EmptyMap]
    ELSE [st |-> "ok",
          prefix_asn |-> [a \in DOMAIN suffixes |-> suffixes[a][1]]]

\* PopAll skipping an empty suffix instead of the panic
PopAllMutSkipEmpty(suffixes) ==
    LET kept == {a \in DOMAIN suffixes : suffixes[a] # <<>>}
    IN  [st |-> "ok", prefix_asn |-> [a \in kept |-> suffixes[a][Len(suffixes[a])]]]

\* The loop of find_as_bottleneck over prefix_to_common_suffix: as_path.pop()
\* gives the last element, and None is the panic "ERROR: No ASN"
PopAll(suffixes) ==
    IF \E a \in DOMAIN suffixes : suffixes[a] = <<>>
    THEN [st |-> "panic", prefix_asn |-> EmptyMap]
    ELSE [st |-> "ok",
          prefix_asn |-> [a \in DOMAIN suffixes |-> suffixes[a][Len(suffixes[a])]]]

FindAsBottleneck(m, ord) ==
    LET cs == FindCommonSuffix(m, ord)
    IN  IF cs.st = "panic" THEN [st |-> "panic", prefix_asn |-> EmptyMap]
        ELSE PopAll(cs.map)

(***************************************************************************)
(* match_rib_entry and one iteration of the loop of parse_mrt              *)
(***************************************************************************)
\* AsPathParser::parse of one per-peer entry: Ok(as_path) or Err
ParseOk(as_path) == [ok |-> TRUE, as_path |-> as_path]
ParseErr == [ok |-> FALSE, as_path |-> <<>>]

\* MatchRibEntryFrom creating the address's entry before the path is parsed
RECURSIVE MatchRibEntryFromMutKey(_, _, _, _)
MatchRibEntryFromMutKey(entries, addr, m, k) ==
    IF k > Len(entries) THEN m
    ELSE IF entries[k].ok
         THEN MatchRibEntryFromMutKey(entries, addr,
                                      MapInsert(m, addr, Dedup(entries[k].as_path)),
                                      k + 1)
         ELSE MatchRibEntryFromMutKey(entries, addr,
                                      [a \in DOMAIN m \cup {addr} |->
                                          IF a \in DOMAIN m THEN m[a] ELSE {}],
                                      k + 1)

\* MatchRibEntryFrom leaving the loop at the first entry that fails
RECURSIVE MatchRibEntryFromMutAbort(_, _, _, _)
MatchRibEntryFromMutAbort(entries, addr, m, k) ==
    IF k > Len(entries) THEN m
    ELSE IF entries[k].ok
         THEN MatchRibEntryFromMutAbort(entries, addr,
                                        MapInsert(m, addr, Dedup(entries[k].as_path)),
                                        k + 1)
         ELSE m

\* The loop of match_rib_entry over entries, from the k-th entry on
RECURSIVE MatchRibEntryFrom(_, _, _, _)
MatchRibEntryFrom(entries, addr, m, k) ==
    IF k > Len(entries) THEN m
    ELSE IF entries[k].ok
         THEN MatchRibEntryFrom(entries, addr,
                                MapInsert(m, addr, Dedup(entries[k].as_path)), k + 1)
         ELSE MatchRibEntryFrom(entries, addr, m, k + 1)

MatchRibEntry(entries, ip, mask, m) ==
    MatchRibEntryFrom(entries, Address(ip, mask), m, 1)

\* A decoded record: Record::TABLE_DUMP_V2(RIB_IPV4_UNICAST | RIB_IPV6_UNICAST)
\* or any other record
RibRecord(variant, prefix, prefix_length, entries) ==
    [variant |-> variant, prefix |-> prefix, prefix_length |-> prefix_length,
     entries |-> entries]
OtherRecord == RibRecord("OTHER", <<>>, 0, <<>>)

IsRib(rec) == rec.variant \in {"RIB_IPV4_UNICAST", "RIB_IPV6_UNICAST"}
RecIp(rec) == FormatIp(rec.prefix, rec.variant = "RIB_IPV4_UNICAST")
RecAddr(rec) == Address(RecIp(rec), rec.prefix_length)

\* The test `octets()[0] > current_end_high_octet` of parse_mrt
OutOfRange(ip, end_octet) == ip[1] > end_octet

\* One iteration of `loop { match reader.read() ... }`. file is the decoder's
\* record stream and pos the records consumed; err says that this read returns
\* Err (the decoder is outside the program: any read may fail). The result
\* gives what the read returned, the maps after it, the new position and
\* whether the loop was left (`break`).
ParseMrtStep(file, pos, err, target, end_octet, next) ==
    IF err
    THEN [read |-> "err", pos |-> pos, mrt_hm |-> target, next_mrt_hm |-> next,
          brk |-> FALSE]
    ELSE IF pos >= Len(file)
    THEN [read |-> "eof", pos |-> pos, mrt_hm |-> target, next_mrt_hm |-> next,
          brk |-> TRUE]
    ELSE LET rec == file[pos + 1] IN
         IF ~IsRib(rec)
         THEN [read |-> "other", pos |-> pos + 1, mrt_hm |-> target,
               next_mrt_hm |-> next, brk |-> FALSE]
         ELSE IF OutOfRange(RecIp(rec), end_octet)
         THEN [read |-> "rib_next", pos |-> pos + 1, mrt_hm |-> target,
               next_mrt_hm |-> MatchRibEntry(rec.entries, RecIp(rec),
                                             rec.prefix_length, next),
               brk |-> TRUE]
         ELSE [read |-> "rib", pos |-> pos + 1,
               mrt_hm |-> MatchRibEntry(rec.entries, RecIp(rec),
                                        rec.prefix_length, target),
               next_mrt_hm |-> next, brk |-> FALSE]

(***************************************************************************)
(* locate                                                                  *)
(***************************************************************************)
Step == 16
U8Max == 255

\* current_start_high_octet.saturating_add(step)
CurrentEndHighOctet(start) == Min(start + Step, U8Max)

\* Seed starting the bin from an empty map
SeedMutEmpty(next) == EmptyMap

\* next_mrt_hm.clone() into the bin's map
Seed(next) == next

\* Clear leaving the entries in the map
ClearMutKeep(next) == next

\* next_mrt_hm.clear()
Clear(next) == EmptyMap

\* "Move the relevant data from unsorted files to current batch records"
DrainBatch(batch, unsorted) ==
    [a \in DOMAIN batch |->
        IF a \in DOMAIN unsorted THEN batch[a] \cup unsorted[a] ELSE batch[a]]

\* DrainCache without the remove
DrainCacheMutKeep(batch, unsorted) == unsorted

DrainCache(batch, unsorted) == MapRemove(unsorted, DOMAIN batch)

\* write_bottleneck: one line per entry of prefix_asn, appended to out
WriteBottleneck(written, prefix_asn) ==
    [a \in DOMAIN written \cup DOMAIN prefix_asn |->
        (IF a \in DOMAIN written THEN written[a] ELSE <<>>)
        \o (IF a \in DOMAIN prefix_asn THEN <<prefix_asn[a]>> ELSE <<>>)]

\* ---- the inputs of a run ----
MaxItems == 3          \* records in all files of a run together

R16 == RibRecord("RIB_IPV4_UNICAST", <<16>>, 8, <<ParseErr, ParseOk(<<1>>)>>)
R17 == RibRecord("RIB_IPV4_UNICAST", <<17>>, 8, <<ParseErr>>)
R40a == RibRecord("RIB_IPV4_UNICAST", <<40>>, 8, <<ParseOk(<<2, 2, 1>>)>>)
R40b == RibRecord("RIB_IPV4_UNICAST", <<40>>, 8, <<ParseOk(<<3, 1>>)>>)
R6 == RibRecord("RIB_IPV6_UNICAST", <<5, 0, 0, 0, 0, 0, 9>>, 56, <<ParseOk(<<>>)>>)

Items == {OtherRecord, R16, R17, R40a, R40b, R6}

\* The assumption of locate on the files of dir_sorted: records non-decreasing
\* in the leading address byte
IsSortedFile(f) ==
    \A j, k \in 1..Len(f) :
        (j < k /\ IsRib(f[j]) /\ IsRib(f[k])) => RecIp(f[j])[1] <= RecIp(f[k])[1]

LocateIdle ==
    /\ files_sorted = <<>> /\ files_unsorted = <<>>
    /\ pos_sorted = <<>> /\ pos_unsorted = <<>>
    /\ mrt_hm_unsorted = EmptyMap /\ next_mrt_hm = EmptyMap /\ mrt_hm = EmptyMap
    /\ current_start_high_octet = 0 /\ file_i = 0 /\ pc = "idle"
    /\ last_read = "none" /\ out = EmptyMap /\ handed = <<>>
    /\ batch_recs = {} /\ carry_recs = {} /\ cache0 = EmptyMap

\* The state of locate when the decoders are open (lines 52-57): two sorted
\* files and one unsorted file
LocateInit ==
    /\ \E n1 \in 0..MaxItems : \E n2 \in 0..(MaxItems - n1) :
       \E n3 \in 0..(MaxItems - n1 - n2) :
       \E f1 \in [1..n1 -> Items], f2 \in [1..n2 -> Items], u \in [1..n3 -> Items] :
            /\ IsSortedFile(f1) /\ IsSortedFile(f2)
            /\ files_sorted = <<f1, f2>>
            /\ files_unsorted = <<u>>
    /\ pos_sorted = [i \in DOMAIN files_sorted |-> 0]
    /\ pos_unsorted = [i \in DOMAIN files_unsorted |-> 0]
    /\ mrt_hm_unsorted = EmptyMap
    /\ next_mrt_hm = EmptyMap
    /\ mrt_hm = EmptyMap
    /\ current_start_high_octet = 0
    /\ file_i = 1
    /\ pc = "load_unsorted"
    /\ last_read = "none"
    /\ out = EmptyMap
    /\ handed = <<>>
    /\ batch_recs = {}
    /\ carry_recs = {}
    /\ cache0 = EmptyMap

\* One read of parse_mrt on an unsorted file (the loop of lines 58-61): the
\* whole file goes to mrt_hm_unsorted, with u8::max_value() as the bound and a
\* fresh map as the carry-over. When the last file is done the bin loop is
\* entered: next_mrt_hm is created and the first bin's map is seeded from it.
LoadUnsortedRead ==
    /\ pc = "load_unsorted"
    /\ \E err \in BOOLEAN :
        LET r == ParseMrtStep(files_unsorted[file_i], pos_unsorted[file_i], err,
                              mrt_hm_unsorted, U8Max, EmptyMap)
        IN  /\ last_read' = r.read
            /\ pos_unsorted' = [pos_unsorted EXCEPT ![file_i] = r.pos]
            /\ mrt_hm_unsorted' = r.mrt_hm
            /\ IF ~r.brk
               THEN UNCHANGED <<file_i, pc, cache0>>
               ELSE IF file_i < Len(files_unsorted)
               THEN file_i' = file_i + 1 /\ UNCHANGED <<pc, cache0>>
               ELSE /\ file_i' = 1
                    /\ pc' = "parse_sorted"
                    /\ cache0' = r.mrt_hm
    /\ UNCHANGED <<files_sorted, files_unsorted, pos_sorted, next_mrt_hm, mrt_hm,
                   current_start_high_octet, out, handed, batch_recs, carry_recs>>

\* One read of parse_mrt on sorted file i in the current bin (line 81)
ParseSortedRead ==
    /\ pc = "parse_sorted"
    /\ \E err \in BOOLEAN :
        LET r == ParseMrtStep(files_sorted[file_i], pos_sorted[file_i], err, mrt_hm,
                              CurrentEndHighOctet(current_start_high_octet),
                              next_mrt_hm)
            id == <<file_i, r.pos>>
        IN  /\ last_read' = r.read
            /\ pos_sorted' = [pos_sorted EXCEPT ![file_i] = r.pos]
            /\ mrt_hm' = r.mrt_hm
            /\ next_mrt_hm' = r.next_mrt_hm
            /\ batch_recs' = IF r.read = "rib" THEN batch_recs \cup {id} ELSE batch_recs
            /\ carry_recs' = IF r.read = "rib_next" THEN carry_recs \cup {id}
                             ELSE carry_recs
            /\ IF ~r.brk
               THEN UNCHANGED <<file_i, pc>>
               ELSE IF file_i < Len(files_sorted)
               THEN file_i' = file_i + 1 /\ UNCHANGED pc
               ELSE file_i' = 1 /\ pc' = "bin_tail"
    /\ UNCHANGED <<files_sorted, files_unsorted, pos_unsorted, mrt_hm_unsorted,
                   current_start_high_octet, out, handed, cache0>>

\* The rest of a bin (lines 84-101): drain the unsorted cache into the bin's
\* map, resolve, write; then the head of the next bin (lines 68-72) or, after
\* the last bin, on to the final flush. The panic of find_as_bottleneck ends
\* the run.
BinTail ==
    /\ pc = "bin_tail"
    /\ LET batch == DrainBatch(mrt_hm, mrt_hm_unsorted)
           start == current_start_high_octet
       IN  /\ mrt_hm_unsorted' = DrainCache(mrt_hm, mrt_hm_unsorted)
           /\ handed' = Append(handed, [bin |-> start, map |-> batch,
                                          recs |-> batch_recs])
           /\ \E ord \in Orderings(batch) :
                LET b == FindAsBottleneck(batch, ord)
                IN  IF b.st = "panic"
                    THEN /\ pc' = "panic"
                         /\ mrt_hm' = batch
                         /\ UNCHANGED <<out, next_mrt_hm, current_start_high_octet,
                                        batch_recs, carry_recs>>
                    ELSE /\ out' = WriteBottleneck(out, b.prefix_asn)
                         /\ IF start + Step < U8Max
                            THEN /\ current_start_high_octet' = start + Step
                                 /\ mrt_hm' = Seed(next_mrt_hm)
                                 /\ next_mrt_hm' = Clear(next_mrt_hm)
                                 /\ batch_recs' = carry_recs
                                 /\ carry_recs' = {}
                                 /\ pc' = "parse_sorted"
                            ELSE /\ pc' = "flush"
                                 /\ mrt_hm' = batch
                                 /\ UNCHANGED <<next_mrt_hm, current_start_high_octet,
                                                batch_recs, carry_recs>>
    /\ UNCHANGED <<files_sorted, files_unsorted, pos_sorted, pos_unsorted, file_i,
                   last_read, cache0>>

\* "Write the remaining values from unsorted files" (lines 104-111)
Flush ==
    /\ pc = "flush"
    /\ handed' = Append(handed, [bin |-> U8Max + 1, map |-> mrt_hm_unsorted,
                                   recs |-> {}])
    /\ \E ord \in Orderings(mrt_hm_unsorted) :
        LET b == FindAsBottleneck(mrt_hm_unsorted, ord)
        IN  IF b.st = "panic"
            THEN pc' = "panic" /\ UNCHANGED out
            ELSE pc' = "done" /\ out' = WriteBottleneck(out, b.prefix_asn)
    /\ UNCHANGED <<files_sorted, files_unsorted, pos_sorted, pos_unsorted,
                   mrt_hm_unsorted, next_mrt_hm, mrt_hm, current_start_high_octet,
                   file_i, last_read, batch_recs, carry_recs, cache0>>

(***************************************************************************)
(* find_as_bottleneck on its own, as the unit tests call it                *)
(***************************************************************************)
MaxPathLen == 3        \* AS numbers in one path
MaxPaths == 3          \* paths in one path set

ASNs == {1, 2}

Paths == UNION {[1..n -> ASNs] : n \in 0..MaxPathLen}

\* The path sets of 1..n paths
RECURSIVE PathSetsUpTo(_)
PathSetsUpTo(n) ==
    IF n = 0 THEN {{}}
    ELSE LET prev == PathSetsUpTo(n - 1)
         IN  prev \cup {ps \cup {p} : ps \in prev, p \in Paths}

PathSets == PathSetsUpTo(MaxPaths) \ {{}}

Addr1 == Address(FormatIp(<<1, 0, 139>>, TRUE), 24)
Addr2 == Address(FormatIp(<<32, 1, 3, 24>>, FALSE), 32)

\* The path sets of the second address of a batch map
OtherPathSets == {{<<2, 1>>}, {<<>>}, {<<1>>, <<2>>}, {<<2, 1, 2>>, <<1, 1, 2>>}}

ResolveIdle ==
    /\ rs_mrt_hm = EmptyMap /\ rs_suffix = EmptyMap /\ rs_hist = EmptyMap
    /\ rs_result = [st |-> "none", prefix_asn |-> EmptyMap] /\ rs_pc = "idle"

ResolveInit ==
    /\ \E ps \in PathSets :
        \/ rs_mrt_hm = [a \in {Addr1} |-> ps]
        \/ \E qs \in OtherPathSets :
             rs_mrt_hm = [a \in {Addr1, Addr2} |-> IF a = Addr1 THEN ps ELSE qs]
    /\ rs_suffix = EmptyMap
    /\ rs_hist = EmptyMap
    /\ rs_result = [st |-> "none", prefix_asn |-> EmptyMap]
    /\ rs_pc = "start"

\* The call of find_common_suffix (line 126)
RsFindCommonSuffix ==
    /\ rs_pc = "start"
    /\ \E ord \in Orderings(rs_mrt_hm) :
        \E cs \in {FindCommonSuffix(rs_mrt_hm, ord)} :
            /\ rs_hist' = cs.hist
            /\ IF cs.st = "panic"
               THEN /\ rs_pc' = "resolved"
                    /\ rs_result' = [st |-> "panic", prefix_asn |-> EmptyMap]
                    /\ UNCHANGED rs_suffix
               ELSE /\ rs_pc' = "suffixed"
                    /\ rs_suffix' = cs.map
                    /\ UNCHANGED rs_result
    /\ UNCHANGED rs_mrt_hm

\* The loop of find_as_bottleneck over prefix_to_common_suffix (lines 128-136)
RsPop ==
    /\ rs_pc = "suffixed"
    /\ rs_result' = PopAll(rs_suffix)
    /\ rs_pc' = "resolved"
    /\ UNCHANGED <<rs_mrt_hm, rs_suffix, rs_hist>>

ResolveNext == RsFindCommonSuffix \/ RsPop

(***************************************************************************)
(* format_ip on its own                                                    *)
(***************************************************************************)
AddrOctetsV4 == 4      \* octets of an Ipv4Addr
AddrOctetsV6 == 16     \* octets of an Ipv6Addr (8 segments of 16 bits)

ByteVals == {0, 171}

FmtIdle ==
    /\ fmt_ip = <<>> /\ fmt_is_ipv4 = TRUE /\ fmt_out = <<>> /\ fmt_pc = "idle"

FmtInit ==
    /\ fmt_is_ipv4 \in BOOLEAN
    /\ \E n \in 0..(IF fmt_is_ipv4 THEN AddrOctetsV4 ELSE AddrOctetsV6) :
        fmt_ip \in [1..n -> ByteVals]
    /\ fmt_out = <<>>
    /\ fmt_pc = "start"

\* The call format_ip(&entry.prefix, is_ipv4)
CallFormatIp ==
    /\ fmt_pc = "start"
    /\ fmt_out' = FormatIp(fmt_ip, fmt_is_ipv4)
    /\ fmt_pc' = "formatted"
    /\ UNCHANGED <<fmt_ip, fmt_is_ipv4>>

(***************************************************************************)
(* The specifications                                                      *)
(***************************************************************************)
Init == LocateInit /\ ResolveIdle /\ FmtIdle

Next ==
    \/ LoadUnsortedRead /\ UNCHANGED <<rvars, fvars>>
    \/ ParseSortedRead /\ UNCHANGED <<rvars, fvars>>
    \/ BinTail /\ UNCHANGED <<rvars, fvars>>
    \/ Flush /\ UNCHANGED <<rvars, fvars>>

Spec == Init /\ [][Next]_vars

InitResolve == LocateIdle /\ ResolveInit /\ FmtIdle

NextResolve ==
    \/ RsFindCommonSuffix /\ UNCHANGED <<lvars, fvars>>
    \/ RsPop /\ UNCHANGED <<lvars, fvars>>

SpecResolve == InitResolve /\ [][NextResolve]_vars

InitFmt == LocateIdle /\ ResolveIdle /\ FmtInit

NextFmt == CallFormatIp /\ UNCHANGED <<lvars, rvars>>

SpecFmt == InitFmt /\ [][NextFmt]_vars

(***************************************************************************)
(* Properties                                                              *)
(***************************************************************************)
\* The entries of `handed` that hold address a
HandedWith(a) == {k \in DOMAIN handed : a \in DOMAIN handed[k].map}

\* The deduplicated paths that match_rib_entry takes from a record
RecPaths(rec) ==
    {Dedup(rec.entries[k].as_path) : k \in {j \in DOMAIN rec.entries : rec.entries[j].ok}}

\* Every record of the files fs merged into one map, as the loop over the
\* unsorted files does (parse_mrt with the bound u8::max_value())
RECURSIVE MergeFile(_, _, _)
MergeFile(f, k, m) ==
    IF k > Len(f) THEN m
    ELSE MergeFile(f, k + 1,
                   IF IsRib(f[k])
                   THEN MatchRibEntry(f[k].entries, RecIp(f[k]), f[k].prefix_length, m)
                   ELSE m)

RECURSIVE MergeFiles(_, _, _)
MergeFiles(fs, i, m) ==
    IF i > Len(fs) THEN m ELSE MergeFiles(fs, i + 1, MergeFile(fs[i], 1, m))

\* C1: over a whole run (all bins and the final flush), with sorted files
\* non-decreasing in the leading byte, no Address is in more than one of the
\* maps handed to the resolver.
C1_NoAddressResolvedTwice ==
    \A j, k \in DOMAIN handed :
        j # k => DOMAIN handed[j].map \cap DOMAIN handed[k].map = {}

\* C2: a completed run over sorted files only writes the same Address -> ASN
\* lines as the run that is given the same records as unsorted files only
\* (which resolves the map of all records once, in the final flush).
C2_SortedEqualsUnsorted ==
    (pc = "done" /\ \A i \in DOMAIN files_unsorted : files_unsorted[i] = <<>>)
    => LET all == MergeFiles(files_sorted, 1, EmptyMap)
       IN  \A ord \in Orderings(all) :
             LET b == FindAsBottleneck(all, ord)
             IN  b.st = "ok" => out = WriteBottleneck(EmptyMap, b.prefix_asn)

\* s is a suffix of path p
IsSuffix(s, p) ==
    /\ Len(s) <= Len(p)
    /\ \A k \in 1..Len(s) : s[k] = p[Len(p) - Len(s) + k]

\* s is a suffix of every path of the set
IsCommonSuffix(s, as_paths) == \A p \in as_paths : IsSuffix(s, p)

\* All paths are non-empty and end in the same origin AS
SameOrigin(as_paths) ==
    /\ \A p \in as_paths : p # <<>>
    /\ \A p, q \in as_paths : p[Len(p)] = q[Len(q)]

\* Two paths of the set end in different origin AS numbers
OriginConflict(as_paths) ==
    \E p, q \in as_paths : p # <<>> /\ q # <<>> /\ p[Len(p)] # q[Len(q)]

\* C3: for an address whose paths are all non-empty with one origin,
\* find_common_suffix stores, origin first, the longest sequence that is a
\* suffix of every path, and find_as_bottleneck emits its last element.
C3_LongestCommonSuffix ==
    \A a \in DOMAIN rs_mrt_hm :
        SameOrigin(rs_mrt_hm[a]) =>
            /\ rs_pc \in {"suffixed", "resolved"} =>
                /\ a \in DOMAIN rs_suffix
                /\ IsCommonSuffix(Reverse(rs_suffix[a]), rs_mrt_hm[a])
                /\ \A p \in rs_mrt_hm[a] : \A n \in 0..Len(p) :
                      IsCommonSuffix(SubSeq(p, Len(p) - n + 1, Len(p)), rs_mrt_hm[a])
                          => n <= Len(rs_suffix[a])
            /\ (rs_pc = "resolved" /\ rs_result.st = "ok") =>
                /\ a \in DOMAIN rs_result.prefix_asn
                /\ rs_result.prefix_asn[a] = rs_suffix[a][Len(rs_suffix[a])]

\* C3 witness: three paths of one origin that diverge at different depths
\* were resolved to a suffix shorter than the shortest path.
C3_Witness ==
    /\ rs_pc = "resolved" /\ rs_result.st = "ok"
    /\ rs_mrt_hm[Addr1] = {<<1, 2, 1>>, <<2, 2, 1>>, <<1, 1, 1>>}
    /\ rs_suffix[Addr1] = <<1>>
    /\ rs_result.prefix_asn[Addr1] = 1

\* C4: the bottleneck ASN emitted for an address occurs in every path of the
\* address's path set.
C4_BottleneckInEveryPath ==
    (rs_pc = "resolved" /\ rs_result.st = "ok") =>
        \A a \in DOMAIN rs_result.prefix_asn :
            \A p \in rs_mrt_hm[a] : rs_result.prefix_asn[a] \in Range(p)

\* C4 witness: an address with several paths got a bottleneck that is not its
\* origin AS.
C4_Witness ==
    /\ rs_pc = "resolved" /\ rs_result.st = "ok"
    /\ Addr1 \in DOMAIN rs_result.prefix_asn
    /\ Cardinality(rs_mrt_hm[Addr1]) = 3
    /\ \E p \in rs_mrt_hm[Addr1] : rs_result.prefix_asn[Addr1] # p[Len(p)]

\* C5: an address with two paths of different origin gets no result entry,
\* and the outcome is that of resolving the batch map without the address
\* (success, with the same entries for the other addresses, unless another
\* address is the fatal one).
C5_AnomalousExcluded ==
    rs_pc = "resolved" =>
        \A a \in DOMAIN rs_mrt_hm :
            OriginConflict(rs_mrt_hm[a]) =>
                /\ a \notin DOMAIN rs_result.prefix_asn
                /\ LET rest == MapRemove(rs_mrt_hm, {a})
                   IN  \A ord \in Orderings(rest) :
                         rs_result = FindAsBottleneck(rest, ord)

\* C5 witness: one address of the batch is anomalous and the other one was
\* resolved.
C5_Witness ==
    /\ rs_pc = "resolved" /\ rs_result.st = "ok"
    /\ OriginConflict(rs_mrt_hm[Addr1])
    /\ Cardinality(rs_mrt_hm[Addr1]) = 3
    /\ DOMAIN rs_result.prefix_asn = {Addr2}

\* C6 as stated: an address whose only path, or whose shortest path among
\* several, is empty makes the resolver end in the fatal error.
C6_EmptyShortestIsFatal ==
    rs_pc = "resolved" =>
        \A a \in DOMAIN rs_mrt_hm :
            <<>> \in rs_mrt_hm[a] => rs_result.st = "panic"

\* C6 amended: an address whose only path is empty makes the resolver end in
\* the fatal error, and nothing else does; an address whose shortest path
\* among several is empty is excluded as anomalous instead (no entry).
C6_OnlyEmptyIsFatal ==
    rs_pc = "resolved" =>
        /\ \A a \in DOMAIN rs_mrt_hm :
            /\ rs_mrt_hm[a] = {<<>>} => rs_result.st = "panic"
            /\ (<<>> \in rs_mrt_hm[a] /\ rs_mrt_hm[a] # {<<>>})
                   => a \notin DOMAIN rs_result.prefix_asn
        /\ rs_result.st = "panic" => \E a \in DOMAIN rs_mrt_hm : rs_mrt_hm[a] = {<<>>}
        /\ rs_result.st = "ok" => rs_result.prefix_asn \in [DOMAIN rs_suffix -> ASNs]

\* C6 witness: the batch holds an address whose only path is empty, and the
\* resolver ended in the fatal error.
C6_Witness ==
    /\ rs_pc = "resolved" /\ rs_result.st = "panic"
    /\ Addr2 \in DOMAIN rs_mrt_hm /\ rs_mrt_hm[Addr2] = {<<>>}
    /\ <<>> \in rs_mrt_hm[Addr1] /\ Cardinality(rs_mrt_hm[Addr1]) = 2

\* C8: format_ip returns the address whose octets are the slice's bytes in
\* order followed by zero bytes (16 octets for IPv6, 4 for IPv4).
C8_FormatIpPadsRight ==
    fmt_pc = "formatted" =>
        /\ Len(fmt_out) = IF fmt_is_ipv4 THEN AddrOctetsV4 ELSE AddrOctetsV6
        /\ \A k \in 1..Len(fmt_out) :
              fmt_out[k] = IF k <= Len(fmt_ip) THEN fmt_ip[k] ELSE 0

\* C7: when a read of parse_mrt returns a decode error, parse_mrt leaves the
\* loop for that file: the step that reads the error moves on to the next
\* file or the next stage of locate.
C7_ErrorSkipsFile ==
    [][(pc \in {"load_unsorted", "parse_sorted"} /\ last_read' = "err")
        => (pc' # pc \/ file_i' # file_i)]_vars

\* The RIB records of the sorted files that yield at least one path, as
\* <<file, index>>
PathRecords ==
    {id \in UNION {{<<i, j>> : j \in 1..Len(files_sorted[i])} : i \in DOMAIN files_sorted} :
        /\ IsRib(files_sorted[id[1]][id[2]])
        /\ RecPaths(files_sorted[id[1]][id[2]]) # {}}

\* The bins (entries of `handed` but the final flush) whose batch map a
\* record was merged into: the record is one of those that went into the map
\* and the map holds its address with its paths
BinsOfRecord(id) ==
    LET rec == files_sorted[id[1]][id[2]]
    IN  {k \in DOMAIN handed :
            /\ handed[k].bin <= U8Max
            /\ id \in handed[k].recs
            /\ RecAddr(rec) \in DOMAIN handed[k].map
            /\ RecPaths(rec) \subseteq handed[k].map[RecAddr(rec)]}

\* C9: at every point of a run, every record read from a sorted file that
\* yields a path is in exactly one of: the current bin's map, the carry-over
\* map, one batch map that was handed to the resolver; when the bin loop has
\* ended (after the last bin, whose bound is 255) every such record of every
\* sorted file is in exactly one resolved batch map and the carry-over map is
\* empty.
C9_EveryRecordInOneBin ==
    /\ \A id \in PathRecords :
         id[2] <= pos_sorted[id[1]] =>
            LET rec == files_sorted[id[1]][id[2]]
                inBatch == /\ pc \in {"parse_sorted", "bin_tail"}
                           /\ id \in batch_recs
                           /\ RecAddr(rec) \in DOMAIN mrt_hm
                           /\ RecPaths(rec) \subseteq mrt_hm[RecAddr(rec)]
                inCarry == /\ id \in carry_recs
                           /\ RecAddr(rec) \in DOMAIN next_mrt_hm
                           /\ RecPaths(rec) \subseteq next_mrt_hm[RecAddr(rec)]
            IN  Cardinality(BinsOfRecord(id)) + (IF inBatch THEN 1 ELSE 0)
                    + (IF inCarry THEN 1 ELSE 0) = 1
    /\ pc \in {"flush", "done"} =>
         /\ \A i \in DOMAIN files_sorted : pos_sorted[i] = Len(files_sorted[i])
         /\ \A id \in PathRecords : Cardinality(BinsOfRecord(id)) = 1
         /\ next_mrt_hm = EmptyMap

\* C9 witness: a completed run in which a record went into a bin's map
\* directly and another one through the carry-over map.
C9_Witness ==
    /\ pc = "done"
    /\ \E k \in DOMAIN handed : <<1, 1>> \in handed[k].recs /\ handed[k].bin = 0
    /\ \E k \in DOMAIN handed : <<1, 2>> \in handed[k].recs /\ handed[k].bin = Step
    /\ <<1, 2>> \in PathRecords

\* C10: in a completed run the final flush hands the rest of the unsorted
\* cache to the resolver exactly once, and every address loaded into the
\* unsorted cache is resolved exactly once in the run.
C10_CacheResolvedOnce ==
    pc = "done" =>
        /\ Cardinality({k \in DOMAIN handed : handed[k].bin > U8Max}) = 1
        /\ handed[Len(handed)].map = mrt_hm_unsorted
        /\ \A a \in DOMAIN cache0 : Cardinality(HandedWith(a)) = 1

\* C11: an address whose path set is one non-empty path gets that path's
\* first element (wire order) as its bottleneck ASN, whatever the length of
\* the path; the stored vector is the whole path reversed.
C11_SinglePathFirstElement ==
    \A a \in DOMAIN rs_mrt_hm : \A p \in rs_mrt_hm[a] :
        (rs_mrt_hm[a] = {p} /\ p # <<>>) =>
            /\ rs_pc = "suffixed" =>
                  a \in DOMAIN rs_suffix /\ rs_suffix[a] = Reverse(p)
            /\ (rs_pc = "resolved" /\ rs_result.st = "ok") =>
                  /\ a \in DOMAIN rs_result.prefix_asn
                  /\ rs_result.prefix_asn[a] = p[1]

\* C11 witness: a single path of three AS numbers whose first element is not
\* its origin was resolved to the first element.
C11_Witness ==
    /\ rs_pc = "resolved" /\ rs_result.st = "ok"
    /\ rs_mrt_hm[Addr1] = {<<2, 1, 1>>}
    /\ rs_result.prefix_asn[Addr1] = 2

\* C12: the step of parse_mrt that merges a RIB record (into the bin's map
\* or into the carry-over map) inserts the deduplicated path of every
\* per-peer entry that parses, entries that fail add nothing and stop
\* nothing, the other map and the other addresses are left alone, the run
\* does not end in an error, and an in-range record is followed by the next
\* read of the same file.
C12_FailedEntrySkippedAlone ==
    [][/\ (pc = "load_unsorted" /\ last_read' = "rib") =>
           LET rec == files_unsorted[file_i][pos_unsorted'[file_i]]
               addr == RecAddr(rec)
               before == IF addr \in DOMAIN mrt_hm_unsorted
                         THEN mrt_hm_unsorted[addr] ELSE {}
           IN  /\ pos_unsorted'[file_i] = pos_unsorted[file_i] + 1
               /\ DOMAIN mrt_hm_unsorted' =
                      DOMAIN mrt_hm_unsorted
                          \cup (IF RecPaths(rec) = {} THEN {} ELSE {addr})
               /\ \A a \in DOMAIN mrt_hm_unsorted' :
                     mrt_hm_unsorted'[a] = IF a = addr THEN before \cup RecPaths(rec)
                                           ELSE mrt_hm_unsorted[a]
               /\ pc' = pc /\ file_i' = file_i
       /\ (pc = "parse_sorted" /\ last_read' \in {"rib", "rib_next"}) =>
           LET rec == files_sorted[file_i][pos_sorted'[file_i]]
               addr == RecAddr(rec)
               old == IF last_read' = "rib" THEN mrt_hm ELSE next_mrt_hm
               new == IF last_read' = "rib" THEN mrt_hm' ELSE next_mrt_hm'
               before == IF addr \in DOMAIN old THEN old[addr] ELSE {}
           IN  /\ pos_sorted'[file_i] = pos_sorted[file_i] + 1
               /\ \A k \in DOMAIN rec.entries :
                     rec.entries[k].ok =>
                        /\ addr \in DOMAIN new
                        /\ Dedup(rec.entries[k].as_path) \in new[addr]
               /\ DOMAIN new = DOMAIN old \cup (IF RecPaths(rec) = {} THEN {} ELSE {addr})
               /\ \A a \in DOMAIN new :
                     new[a] = IF a = addr THEN before \cup RecPaths(rec) ELSE old[a]
               /\ IF last_read' = "rib"
                  THEN next_mrt_hm' = next_mrt_hm /\ pc' = pc /\ file_i' = file_i
                  ELSE mrt_hm' = mrt_hm /\ pc' \in {"parse_sorted", "bin_tail"}
      ]_vars

\* C12 witness: a record whose first per-peer entry fails and whose second
\* one parses was merged with the path of the second, and the record after
\* it was read from the same file.
C12_Witness ==
    /\ pc = "parse_sorted"
    /\ Len(files_sorted[1]) >= 2 /\ files_sorted[1][1] = R16
    /\ pos_sorted[1] = 2
    /\ RecAddr(R16) \in DOMAIN mrt_hm /\ mrt_hm[RecAddr(R16)] = {<<1>>}
    /\ last_read = "rib_next"

\* The leading address byte of the record that the last read of sorted file
\* file_i returned
LastSortedByte == RecIp(files_sorted[file_i][pos_sorted[file_i]])[1]

\* C13: in the bin that starts at current_start_high_octet a record of a
\* sorted file is merged into the bin's own map only if its leading byte is
\* below the start of the next bin (start + Step, half-open), the last bin
\* taking every byte up to 255; a record whose leading byte equals
\* start + Step is not merged into the bin's map.
C13_HalfOpenBins ==
    (pc = "parse_sorted" /\ last_read = "rib") =>
        \/ LastSortedByte < current_start_high_octet + Step
        \/ current_start_high_octet + Step > U8Max

\* C14: every address that the carry-over map seeds into the next bin's map
\* belongs to that bin: its leading byte is above the bound of the bin that
\* ends and not above the bound of the bin that begins.
C14_SeedBelongsToNextBin ==
    [][(pc = "bin_tail" /\ pc' = "parse_sorted") =>
        \A a \in DOMAIN mrt_hm' :
            /\ a.ip[1] > CurrentEndHighOctet(current_start_high_octet)
            /\ a.ip[1] <= CurrentEndHighOctet(current_start_high_octet')
      ]_vars

\* C15: the drain step of a bin gives every address of the bin's map that is
\* also in the unsorted cache the union of the two path sets and removes the
\* address from the cache; the other entries of the bin's map and of the
\* cache stay as they are; once loaded, the cache never gains an address or
\* a path.
C15_DrainMovesMatchingEntries ==
    [][/\ pc = "bin_tail" =>
            LET batch == handed'[Len(handed')].map
            IN  /\ Len(handed') = Len(handed) + 1
                /\ DOMAIN batch = DOMAIN mrt_hm
                /\ \A a \in DOMAIN mrt_hm :
                      IF a \in DOMAIN mrt_hm_unsorted
                      THEN /\ batch[a] = mrt_hm[a] \cup mrt_hm_unsorted[a]
                           /\ a \notin DOMAIN mrt_hm_unsorted'
                      ELSE batch[a] = mrt_hm[a]
                /\ \A a \in DOMAIN mrt_hm_unsorted :
                      a \notin DOMAIN mrt_hm =>
                         /\ a \in DOMAIN mrt_hm_unsorted'
                         /\ mrt_hm_unsorted'[a] = mrt_hm_unsorted[a]
       /\ pc # "load_unsorted" =>
            \A a \in DOMAIN mrt_hm_unsorted' :
                /\ a \in DOMAIN mrt_hm_unsorted
                /\ mrt_hm_unsorted'[a] = mrt_hm_unsorted[a]
                /\ a \in DOMAIN cache0 /\ mrt_hm_unsorted'[a] = cache0[a]
      ]_vars

\* C15 witness: a bin's map was handed over with the paths of the sorted
\* record and of the unsorted record of one address, the address has left
\* the cache, and another address of the cache is still in it.
C15_Witness ==
    /\ pc = "parse_sorted"
    /\ \E k \in DOMAIN handed :
          /\ RecAddr(R40a) \in DOMAIN handed[k].map
          /\ handed[k].map[RecAddr(R40a)] = RecPaths(R40a) \cup RecPaths(R40b)
    /\ RecAddr(R40a) \in DOMAIN cache0
    /\ RecAddr(R40a) \notin DOMAIN mrt_hm_unsorted
    /\ RecAddr(R16) \in DOMAIN mrt_hm_unsorted

\* Every key of the map has at least one path
NoEmptyPathSet(m) == \A a \in DOMAIN m : m[a] # {}

\* C16: every address of every map handed to the resolver (each bin's map
\* after seeding, reading and drain, and the rest of the cache in the final
\* flush) has at least one path, and so has every address of the maps that
\* are being built; an address whose per-peer entries all fail is never a
\* key; the resolver fails on no map but one with an address whose only path
\* is empty.
C16_NoEmptyPathSet ==
    /\ \A k \in DOMAIN handed : NoEmptyPathSet(handed[k].map)
    /\ NoEmptyPathSet(mrt_hm) /\ NoEmptyPathSet(next_mrt_hm)
    /\ NoEmptyPathSet(mrt_hm_unsorted)
    /\ \A i \in DOMAIN files_sorted : \A j \in 1..pos_sorted[i] :
          LET rec == files_sorted[i][j]
          IN  (IsRib(rec) /\ RecPaths(rec) = {}) =>
                 /\ RecAddr(rec) \notin DOMAIN next_mrt_hm
                 /\ \A k \in DOMAIN handed :
                       RecAddr(rec) \in DOMAIN handed[k].map =>
                          handed[k].map[RecAddr(rec)] # {}
    /\ pc = "panic" =>
          \E a \in DOMAIN handed[Len(handed)].map :
              handed[Len(handed)].map[a] = {<<>>}

\* C16 witness: a completed run that read a record whose entries all fail,
\* from a sorted file and from an unsorted file, and handed a non-empty map
\* to the resolver.
C16_Witness ==
    /\ pc = "done"
    /\ Len(files_sorted[1]) >= 1 /\ files_sorted[1][1] = R17
    /\ Len(files_unsorted[1]) >= 1 /\ files_unsorted[1][1] = R17
    /\ \E k \in DOMAIN handed : DOMAIN handed[k].map # {}
    /\ \A k \in DOMAIN handed : RecAddr(R17) \notin DOMAIN handed[k].map

\* The addresses of the records of carry_recs that yield a path
CarriedAddrs ==
    {RecAddr(files_sorted[id[1]][id[2]]) : id \in carry_recs \cap PathRecords}

\* C18: the carry-over map holds the addresses of the out-of-range records
\* read in the current bin's pass and nothing else (it is empty when the
\* pass starts): at most one record per sorted file, the last one that the
\* file's pass read, and none yet for the files whose pass has not run; so
\* it holds at most one address per sorted file.
C18_CarryOnePerFile ==
    /\ DOMAIN next_mrt_hm = CarriedAddrs
    /\ Cardinality(DOMAIN next_mrt_hm) <= Len(files_sorted)
    /\ \A i \in DOMAIN files_sorted :
          /\ Cardinality({id \in carry_recs : id[1] = i}) <= 1
          /\ \A id \in carry_recs : id[1] = i => id[2] = pos_sorted[i]
          /\ (pc = "parse_sorted" /\ i >= file_i) =>
                {id \in carry_recs : id[1] = i} = {}

\* C18 witness: in one bin's pass both sorted files read an out-of-range
\* record, each after an in-range record, and the pass is over.
C18_Witness ==
    /\ pc = "bin_tail"
    /\ carry_recs = {<<1, 2>>, <<2, 1>>}
    /\ DOMAIN next_mrt_hm = {RecAddr(R40a)}
    /\ Cardinality(next_mrt_hm[RecAddr(R40a)]) = 2

SameOutcome(a, as_paths_sorted) ==
    \A c \in {CommonSuffixOf(as_paths_sorted)} :
        \/ c.st = "skip" /\ a \notin DOMAIN rs_suffix
        \/ c.st = "ok" /\ a \in DOMAIN rs_suffix /\ c.v = rs_suffix[a]

\* C19: what find_common_suffix stores for an address (the address left out
\* as anomalous, or its common suffix) is the same for every order in which
\* the address's path set can come out of the sort, and so is what
\* find_as_bottleneck returns: the ASN of each address, the addresses without
\* an entry, and the fatal error, which every order runs into or none.
C19_OrderIndependent ==
    /\ rs_pc = "suffixed" =>
          \A a \in DOMAIN rs_mrt_hm : \A s \in SortedOrders(rs_mrt_hm[a]) :
              SameOutcome(a, s)
    /\ (rs_pc = "resolved" /\ rs_result.st = "ok") =>
          \A a \in DOMAIN rs_mrt_hm : \A s \in SortedOrders(rs_mrt_hm[a]) :
              \A c \in {CommonSuffixOf(s)} :
                  IF c.st = "ok"
                  THEN /\ a \in DOMAIN rs_result.prefix_asn
                       /\ c.v # <<>>
                       /\ rs_result.prefix_asn[a] = c.v[Len(c.v)]
                  ELSE c.st = "skip" /\ a \notin DOMAIN rs_result.prefix_asn
    /\ (rs_pc = "resolved" /\ rs_result.st = "panic") =>
          /\ rs_result.prefix_asn = EmptyMap
          /\ \E b \in DOMAIN rs_mrt_hm : \A t \in SortedOrders(rs_mrt_hm[b]) :
                CommonSuffixOf(t) = [st |-> "ok", v |-> <<>>, hist |-> <<>>]

\* C19 witness: a path set with three paths of one length, which the sort
\* can leave in several orders, was resolved, next to an address that was
\* left out as anomalous.
C19_Witness ==
    /\ rs_pc = "resolved" /\ rs_result.st = "ok"
    /\ rs_mrt_hm[Addr1] = {<<1, 2, 2>>, <<2, 1, 2>>, <<1, 1, 2>>}
    /\ Cardinality(SortedOrders(rs_mrt_hm[Addr1])) > 1
    /\ Addr2 \in DOMAIN rs_mrt_hm /\ rs_mrt_hm[Addr2] = {<<1>>, <<2>>}
    /\ rs_result.prefix_asn = [a \in {Addr1} |-> 2]

====
